---- MODULE Spec2Model ----
(***************************************************************************)
(* TaskFlow (src/app.js): the task board's domain store, command layer,    *)
(* activity log and realtime bridge as a state machine.                    *)
(*                                                                         *)
(* Text that the code inspects (trim, length, replace) is a sequence of    *)
(* one-character strings.  Timestamps are minutes since                    *)
(* 2025-07-01T00:00Z; a date-only string "YYYY-MM-DD" is its day number    *)
(* since 2025-07-01.  The tab's time zone is taken to be UTC.              *)
(***************************************************************************)
EXTENDS Integers, Sequences, FiniteSets, TLC

\* ------------------------------------------------------------------ bounds
MaxTime == 1
MaxActivities == 5
MaxTasks == 7
MaxColumns == 6
MaxReloads == 1
MaxTimers == 2
MaxEvents == 2

\* ------------------------------------------------------- program constants
TitleMaxLength == 100
DescriptionMaxLength == 500
MaxTagCount == 10

\* -------------------------------------------------------------------- text
Rep(c, n) == [i \in 1..n |-> c]

RECURSIVE TrimStart(_)
TrimStart(s) ==
    IF s # <<>> /\ Head(s) = " " THEN TrimStart(Tail(s)) ELSE s

RECURSIVE TrimEnd(_)
TrimEnd(s) ==
    IF s # <<>> /\ s[Len(s)] = " " THEN TrimEnd(SubSeq(s, 1, Len(s) - 1)) ELSE s

\* the string as it is, blanks kept
Untrimmed(s) == s

\* String.prototype.trim
Trim(s) == TrimEnd(TrimStart(s))

\* the position of the first occurrence of pat in s, 0 when there is none
IndexOf(s, pat) ==
    LET hits == {i \in 1..(Len(s) - Len(pat) + 1) : SubSeq(s, i, i + Len(pat) - 1) = pat}
    IN  IF hits = {} THEN 0 ELSE CHOOSE i \in hits : \A j \in hits : i <= j

\* String.prototype.replace(pat, ""): the first occurrence only
RemoveFirst(s, pat) ==
    LET i == IndexOf(s, pat)
    IN  IF i = 0 THEN s ELSE SubSeq(s, 1, i - 1) \o SubSeq(s, i + Len(pat), Len(s))

DigitChars == <<"0", "1", "2", "3", "4", "5", "6", "7", "8", "9">>

RECURSIVE Digits(_)
Digits(n) ==
    IF n < 10 THEN <<DigitChars[n + 1]>>
    ELSE Digits(n \div 10) \o <<DigitChars[(n % 10) + 1]>>

\* -------------------------------------------------------------------- time
At(day, hh, mm) == ((day * 24) + hh) * 60 + mm
MinutesPerDay == 24 * 60
\* new Date("YYYY-MM-DD"): midnight at the start of that day
DateOf(day) == day * MinutesPerDay
\* today.setHours(0, 0, 0, 0)
StartOfDay(t) == t - (t % MinutesPerDay)
\* the clock reading when the page is first opened: 2025-09-01T09:00Z
SessionStart == At(62, 9, 0)

\* ----------------------------------------------------------------- strings
ColPrefix == <<"c","o","l","-">>
ColBacklog == <<"c","o","l","-","b","a","c","k","l","o","g">>
ColTodo == <<"c","o","l","-","t","o","d","o">>
ColInProgress == <<"c","o","l","-","i","n","-","p","r","o","g","r","e","s","s">>
ColReview == <<"c","o","l","-","r","e","v","i","e","w">>
ColDone == <<"c","o","l","-","d","o","n","e">>
StBacklog == <<"b","a","c","k","l","o","g">>
StTodo == <<"t","o","d","o">>
StInProgress == <<"i","n","-","p","r","o","g","r","e","s","s">>
StReview == <<"r","e","v","i","e","w">>
StDone == <<"d","o","n","e">>
TxtUndefined == <<"u","n","d","e","f","i","n","e","d">>
TxtBlocked == <<"B","l","o","c","k","e","d">>

\* ------------------------------------------------------------ identifiers
TaskId(n) == <<"task-", n>>
ActivityId(n) == <<"activity-", n>>
NoTaskId == <<"", 0>>

\* ------------------------------------------------------------------- seeds
SeedUsers ==
    << [id |-> "user-1", name |-> "Deepanshu", email |-> "Deepanshu@company.com",
        avatar |-> "DC", role |-> "Designer", isOnline |-> TRUE, color |-> "#1FB8CD"],
       [id |-> "user-2", name |-> "Rajesh", email |-> "Rajesh@company.com",
        avatar |-> "RJ", role |-> "Developer", isOnline |-> TRUE, color |-> "#FFC185"],
       [id |-> "user-3", name |-> "Ekta", email |-> "ekta@company.com",
        avatar |-> "EK", role |-> "Product Manager", isOnline |-> FALSE, color |-> "#B4413C"] >>

SeedColumns ==
    << [id |-> ColBacklog, name |-> <<"B","a","c","k","l","o","g">>, order |-> 0, color |-> "#64748b"],
       [id |-> ColTodo, name |-> <<"T","o"," ","D","o">>, order |-> 1, color |-> "#3b82f6"],
       [id |-> ColInProgress, name |-> <<"I","n"," ","P","r","o","g","r","e","s","s">>, order |-> 2, color |-> "#f59e0b"],
       [id |-> ColReview, name |-> <<"R","e","v","i","e","w">>, order |-> 3, color |-> "#8b5cf6"],
       [id |-> ColDone, name |-> <<"D","o","n","e">>, order |-> 4, color |-> "#10b981"] >>

SeedTasks ==
    << [id |-> TaskId(1),
        title |-> <<"D","e","s","i","g","n"," ","L","a","n","d","i","n","g"," ","P","a","g","e">>,
        description |-> <<"C","r","e","a","t","e"," ","a"," ","m","o","d","e","r","n",","," ","r","e","s","p","o","n","s","i","v","e"," ","l","a","n","d","i","n","g"," ","p","a","g","e"," ","f","o","r"," ","t","h","e"," ","n","e","w"," ","p","r","o","d","u","c","t"," ","l","a","u","n","c","h">>,
        status |-> StInProgress, priority |-> "high", assigneeId |-> "user-1",
        dueDate |-> <<45>>, createdAt |-> At(31, 10, 0), updatedAt |-> At(32, 14, 30),
        tags |-> << <<"d","e","s","i","g","n">>, <<"f","r","o","n","t","e","n","d">> >>,
        columnId |-> ColInProgress],
       [id |-> TaskId(2),
        title |-> <<"A","P","I"," ","I","n","t","e","g","r","a","t","i","o","n">>,
        description |-> <<"I","n","t","e","g","r","a","t","e"," ","p","a","y","m","e","n","t"," ","g","a","t","e","w","a","y"," ","A","P","I"," ","w","i","t","h"," ","t","h","e"," ","c","h","e","c","k","o","u","t"," ","s","y","s","t","e","m">>,
        status |-> StTodo, priority |-> "critical", assigneeId |-> "user-2",
        dueDate |-> <<40>>, createdAt |-> At(31, 9, 0), updatedAt |-> At(31, 9, 0),
        tags |-> << <<"b","a","c","k","e","n","d">>, <<"a","p","i">> >>,
        columnId |-> ColTodo],
       [id |-> TaskId(3),
        title |-> <<"U","s","e","r"," ","T","e","s","t","i","n","g">>,
        description |-> <<"C","o","n","d","u","c","t"," ","u","s","a","b","i","l","i","t","y"," ","t","e","s","t","i","n","g"," ","w","i","t","h"," ","1","0"," ","t","a","r","g","e","t"," ","u","s","e","r","s">>,
        status |-> StReview, priority |-> "medium", assigneeId |-> "user-3",
        dueDate |-> <<50>>, createdAt |-> At(27, 11, 0), updatedAt |-> At(32, 16, 0),
        tags |-> << <<"t","e","s","t","i","n","g">>, <<"u","x">> >>,
        columnId |-> ColReview],
       [id |-> TaskId(4),
        title |-> <<"D","a","t","a","b","a","s","e"," ","O","p","t","i","m","i","z","a","t","i","o","n">>,
        description |-> <<"O","p","t","i","m","i","z","e"," ","d","a","t","a","b","a","s","e"," ","q","u","e","r","i","e","s"," ","f","o","r"," ","b","e","t","t","e","r"," ","p","e","r","f","o","r","m","a","n","c","e">>,
        status |-> StBacklog, priority |-> "low", assigneeId |-> "user-2",
        dueDate |-> <<55>>, createdAt |-> At(31, 8, 0), updatedAt |-> At(31, 8, 0),
        tags |-> << <<"b","a","c","k","e","n","d">>, <<"p","e","r","f","o","r","m","a","n","c","e">> >>,
        columnId |-> ColBacklog],
       [id |-> TaskId(5),
        title |-> <<"M","o","b","i","l","e"," ","A","p","p"," ","T","e","s","t","i","n","g">>,
        description |-> <<"C","o","m","p","l","e","t","e"," ","t","e","s","t","i","n","g"," ","o","f"," ","m","o","b","i","l","e"," ","a","p","p","l","i","c","a","t","i","o","n"," ","f","e","a","t","u","r","e","s">>,
        status |-> StDone, priority |-> "medium", assigneeId |-> "user-3",
        dueDate |-> <<35>>, createdAt |-> At(24, 10, 0), updatedAt |-> At(31, 16, 0),
        tags |-> << <<"m","o","b","i","l","e">>, <<"t","e","s","t","i","n","g">> >>,
        columnId |-> ColDone] >>

\* An activity's message is the template's parts: `${user} ${verb} "${title}" from ${from} to ${to}`
Message(user, verb, title, from, to) ==
    [user |-> user, verb |-> verb, title |-> title, from |-> from, to |-> to]

SeedActivities(t) ==
    << [id |-> ActivityId(1), type |-> "task_created",
        message |-> Message("Sarah Chen", "created", SeedTasks[1].title, <<>>, <<>>),
        userId |-> "user-1", taskId |-> TaskId(1), timestamp |-> t - 30],
       [id |-> ActivityId(2), type |-> "task_moved",
        message |-> Message("Mike Johnson", "moved", SeedTasks[2].title, <<>>, SeedColumns[2].name),
        userId |-> "user-2", taskId |-> TaskId(2), timestamp |-> t - 60],
       [id |-> ActivityId(3), type |-> "task_completed",
        message |-> Message("Emma Davis", "completed", SeedTasks[5].title, <<>>, <<>>),
        userId |-> "user-3", taskId |-> TaskId(5), timestamp |-> t - 120] >>

\* ------------------------------------------------------------------- state
VARIABLES
    tasks,          \* this.tasks
    users,          \* this.users
    columns,        \* this.columns
    activities,     \* this.activities
    currentUser,    \* this.currentUser: <<>> (null or undefined) or <<user>>
    isInitialized,  \* this.isInitialized
    listening,      \* the storage listener and the interval are registered
    draggedTask,    \* this.draggedTask: <<>> or <<[id, detached, snap]>>
    storage,        \* localStorage: key -> stored value
    now,            \* the clock reading, Date.now()
    reloads,        \* page loads after the first
    filters,        \* this.filters: priority, assignee, search
    searchTimeout,  \* this.searchTimeout: 0 (null) or the id setTimeout returned
    timers,         \* the ids of the timeouts that are pending
    peer,           \* a second tab on the same localStorage, and the storage
                    \* events on their way between the two
    last            \* the handler that ran last, with what it was given and found

vars == <<tasks, users, columns, activities, currentUser, isInitialized, listening,
          draggedTask, storage, now, reloads, filters, searchTimeout, timers, peer,
          last>>

Keys == {"taskflow-users", "taskflow-columns", "taskflow-tasks", "taskflow-activities"}

\* a stored value: no item, the JSON text of an array, or text that is not JSON
Absent == [kind |-> "absent", val |-> <<>>]
Json(v) == [kind |-> "json", val |-> v]
NotJson == [kind |-> "text", val |-> <<>>]

\* loadFromStorage(key) || seed
loadFromStorage(store, key, seed) ==
    IF store[key].kind = "json" THEN store[key].val ELSE seed

\* saveToStorage(key, data)
saveToStorage(store, key, data) == [store EXCEPT ![key] = Json(data)]

\* --------------------------------------------------------------- task form
\* String.prototype.split(","): the pieces between the commas
RECURSIVE Split(_)
Split(s) ==
    LET i == IndexOf(s, <<",">>)
    IN  IF i = 0 THEN <<s>>
        ELSE <<SubSeq(s, 1, i - 1)>> \o Split(SubSeq(s, i + 1, Len(s)))

\* .map((tag) => tag.trim()).filter((tag) => tag)
RECURSIVE TrimmedNonEmpty(_)
TrimmedNonEmpty(pieces) ==
    IF pieces = <<>> THEN <<>>
    ELSE (IF Trim(Head(pieces)) # <<>> THEN <<Trim(Head(pieces))>> ELSE <<>>)
         \o TrimmedNonEmpty(Tail(pieces))

\* the task data saveTask reads from the form fields at clock reading t
TaskData(form, t) ==
    [title |-> Trim(form.title),
     description |-> Trim(form.description),
     priority |-> IF form.priority = "" THEN "medium" ELSE form.priority,
     assigneeId |-> form.assigneeId,
     dueDate |-> form.dueDate,
     columnId |-> IF form.columnId = <<>> THEN ColBacklog ELSE form.columnId,
     tags |-> TrimmedNonEmpty(Split(form.tags)),
     updatedAt |-> t]

\* validateTaskForm without the title's length rule
validateTaskFormNoLength(taskData, t) ==
    (IF taskData.title = <<>> THEN {"title"} ELSE {})
    \cup (IF taskData.description # <<>> /\ Len(taskData.description) > DescriptionMaxLength
          THEN {"description"} ELSE {})
    \cup (IF taskData.dueDate # <<>> /\ DateOf(taskData.dueDate[1]) < StartOfDay(t)
          THEN {"dueDate"} ELSE {})
    \cup (IF Len(taskData.tags) > MaxTagCount THEN {"tags"} ELSE {})

\* validateTaskForm refusing a title that is as long as the limit
validateTaskFormAtLimit(taskData, t) ==
    (IF taskData.title = <<>> \/ Len(taskData.title) >= TitleMaxLength
     THEN {"title"} ELSE {})
    \cup (IF taskData.description # <<>> /\ Len(taskData.description) > DescriptionMaxLength
          THEN {"description"} ELSE {})
    \cup (IF taskData.dueDate # <<>> /\ DateOf(taskData.dueDate[1]) < StartOfDay(t)
          THEN {"dueDate"} ELSE {})
    \cup (IF Len(taskData.tags) > MaxTagCount THEN {"tags"} ELSE {})

\* validateTaskForm(taskData): the fields in error
validateTaskForm(taskData, t) ==
    (IF taskData.title = <<>> \/ Len(taskData.title) > TitleMaxLength
     THEN {"title"} ELSE {})
    \cup (IF taskData.description # <<>> /\ Len(taskData.description) > DescriptionMaxLength
          THEN {"description"} ELSE {})
    \cup (IF taskData.dueDate # <<>> /\ DateOf(taskData.dueDate[1]) < StartOfDay(t)
          THEN {"dueDate"} ELSE {})
    \cup (IF Len(taskData.tags) > MaxTagCount THEN {"tags"} ELSE {})

\* Object.assign that adds the form's tags to the task's instead of replacing them
ObjectAssignAddingTags(task, taskData) ==
    [task EXCEPT !.title = taskData.title,
                 !.description = taskData.description,
                 !.priority = taskData.priority,
                 !.assigneeId = taskData.assigneeId,
                 !.dueDate = taskData.dueDate,
                 !.columnId = taskData.columnId,
                 !.tags = @ \o taskData.tags,
                 !.updatedAt = taskData.updatedAt]

\* Object.assign(task, taskData)
ObjectAssign(task, taskData) ==
    [task EXCEPT !.title = taskData.title,
                 !.description = taskData.description,
                 !.priority = taskData.priority,
                 !.assigneeId = taskData.assigneeId,
                 !.dueDate = taskData.dueDate,
                 !.columnId = taskData.columnId,
                 !.tags = taskData.tags,
                 !.updatedAt = taskData.updatedAt]

\* columnId.replace("col-", "")
StatusOf(columnId) == RemoveFirst(columnId, ColPrefix)

\* { id: "task-" + Date.now(), ...taskData, status: ..., createdAt: ... }
NewTask(taskData, t) ==
    [id |-> TaskId(t),
     title |-> taskData.title,
     description |-> taskData.description,
     status |-> StatusOf(taskData.columnId),
     priority |-> taskData.priority,
     assigneeId |-> taskData.assigneeId,
     dueDate |-> taskData.dueDate,
     createdAt |-> t,
     updatedAt |-> taskData.updatedAt,
     tags |-> taskData.tags,
     columnId |-> taskData.columnId]

\* Array.prototype.find by id: the index of the first match, 0 when none
FindTask(ts, id) ==
    LET hits == {i \in 1..Len(ts) : ts[i].id = id}
    IN  IF hits = {} THEN 0 ELSE CHOOSE i \in hits : \A j \in hits : i <= j

\* a find that falls back on the first column when no id matches
FindColumnOrFirst(cs, id) ==
    LET hits == {i \in 1..Len(cs) : cs[i].id = id}
    IN  IF hits = {} THEN (IF cs = <<>> THEN 0 ELSE 1)
        ELSE CHOOSE i \in hits : \A j \in hits : i <= j

\* Array.prototype.find by id over the columns
FindColumn(cs, id) ==
    LET hits == {i \in 1..Len(cs) : cs[i].id = id}
    IN  IF hits = {} THEN 0 ELSE CHOOSE i \in hits : \A j \in hits : i <= j

\* the activity addActivity builds; unshift puts it first
NewActivity(type, message, taskId, user, t) ==
    [id |-> ActivityId(t), type |-> type, message |-> message,
     userId |-> user.id, taskId |-> taskId, timestamp |-> t]

addActivity(acts, type, message, taskId, user, t) ==
    <<NewActivity(type, message, taskId, user, t)>> \o acts

\* ------------------------------------------------------- what `last` holds
EmptyForm ==
    [title |-> <<>>, description |-> <<>>, priority |-> "", assigneeId |-> "",
     dueDate |-> <<>>, columnId |-> <<>>, tags |-> <<>>]

\* no second tab is open. Of a second tab the model keeps this.tasks,
\* this.activities and this.currentUser, the storage events queued for it (inbox)
\* and the storage events its writes have queued for this tab (sent)
NoPeer ==
    [open |-> FALSE, tasks |-> <<>>, activities |-> <<>>, currentUser |-> <<>>,
     inbox |-> <<>>, sent |-> <<>>]

\* this.filters as the constructor sets it
NoFilters == [priority |-> "", assignee |-> "", search |-> <<>>]

NoLast ==
    [op |-> "none", taskId |-> NoTaskId, columnId |-> <<>>, editing |-> FALSE,
     form |-> EmptyForm, key |-> "", result |-> "", notify |-> <<>>,
     threw |-> FALSE, before |-> <<>>, nActs |-> 0, changed |-> FALSE,
     name |-> <<>>, doc |-> <<>>, filtered |-> <<>>, errors |-> {},
     rendered |-> FALSE]

\* the bounds every step stays within
Bounded ==
    /\ Len(activities) <= MaxActivities
    /\ Len(tasks) <= MaxTasks
    /\ Len(columns) <= MaxColumns
    /\ now <= SessionStart + MaxTime
    /\ reloads <= MaxReloads
    /\ searchTimeout <= MaxTimers
    /\ Len(peer.activities) <= MaxActivities
    /\ Len(peer.inbox) <= MaxEvents
    /\ Len(peer.sent) <= MaxEvents

\* ---------------------------------------------------------------- start-up
\* a profile the application has not run in
FreshProfile == [k \in Keys |-> Absent]

\* a profile in which an earlier session (a day before) imported a document
\* whose users is the empty array, which importData stores as it is
EmptyUsersProfile ==
    [k \in Keys |->
        IF k = "taskflow-users" THEN Json(<<>>)
        ELSE IF k = "taskflow-columns" THEN Json(SeedColumns)
        ELSE IF k = "taskflow-tasks" THEN Json(SeedTasks)
        ELSE Json(SeedActivities(SessionStart - MinutesPerDay))]

Profiles == {FreshProfile, EmptyUsersProfile}

\* the state the constructor leaves, over what the browser profile holds
Init ==
    /\ tasks = <<>>
    /\ users = <<>>
    /\ columns = <<>>
    /\ activities = <<>>
    /\ currentUser = <<>>
    /\ isInitialized = FALSE
    /\ listening = FALSE
    /\ draggedTask = <<>>
    /\ storage \in Profiles
    /\ now = SessionStart
    /\ reloads = 0
    /\ filters = NoFilters
    /\ searchTimeout = 0
    /\ timers = {}
    /\ peer = NoPeer
    /\ last = NoLast

\* initializeData, then the rest of init(); init() runs once in a page load
init ==
    /\ ~isInitialized
    /\ ~listening
    /\ users = <<>>
    /\ LET us == loadFromStorage(storage, "taskflow-users", SeedUsers)
           cs == loadFromStorage(storage, "taskflow-columns", SeedColumns)
           ts == loadFromStorage(storage, "taskflow-tasks", SeedTasks)
           as == loadFromStorage(storage, "taskflow-activities", SeedActivities(now))
       IN  /\ users' = us
           /\ columns' = cs
           /\ tasks' = ts
           /\ activities' = as
           /\ currentUser' = IF us = <<>> THEN <<>> ELSE <<us[1]>>
           /\ storage' = saveToStorage(saveToStorage(saveToStorage(saveToStorage(storage,
                            "taskflow-users", us), "taskflow-columns", cs),
                            "taskflow-tasks", ts), "taskflow-activities", as)
    /\ isInitialized' = TRUE
    /\ listening' = TRUE
    /\ last' = [NoLast EXCEPT !.op = "init", !.nActs = Len(activities)]
    /\ UNCHANGED <<draggedTask, now, reloads, filters, searchTimeout, timers, peer>>
    /\ Bounded'

\* initializeMinimalData()
MinimalUsers == <<SeedUsers[1]>>
MinimalColumns ==
    <<[id |-> ColTodo, name |-> <<"T","o"," ","D","o">>, order |-> 0, color |-> "#3b82f6"],
      [id |-> ColDone, name |-> <<"D","o","n","e">>, order |-> 1, color |-> "#10b981"]>>
MinimalTasks(t) ==
    <<[id |-> TaskId(1),
       title |-> <<"W","e","l","c","o","m","e"," ","T","a","s","k">>,
       description |-> <<"W","e","l","c","o","m","e"," ","t","o"," ","T","a","s","k","F","l","o","w","!">>,
       status |-> StTodo, priority |-> "medium", assigneeId |-> "user-1",
       columnId |-> ColTodo, tags |-> << <<"w","e","l","c","o","m","e">> >>,
       createdAt |-> t, updatedAt |-> t]>>

\* the steps of init() at which an exception is taken to be raised: before
\* initializeData, after it, and after setupRealtimeUpdates
InitSteps == {"showLoadingSpinner", "setTheme", "setupOfflineHandling"}

\* init() when `step` raises: the catch calls handleInitializationError, which
\* notifies and calls renderBasicView; renderCurrentView returns at once while
\* isInitialized is false, so nothing throws and showFallbackUI is not reached
initFails(step) ==
    LET loaded == step # "showLoadingSpinner"
        us == IF loaded THEN loadFromStorage(storage, "taskflow-users", SeedUsers) ELSE <<>>
        cs == IF loaded THEN loadFromStorage(storage, "taskflow-columns", SeedColumns) ELSE <<>>
        ts == IF loaded THEN loadFromStorage(storage, "taskflow-tasks", SeedTasks) ELSE <<>>
        as == IF loaded THEN loadFromStorage(storage, "taskflow-activities", SeedActivities(now))
              ELSE <<>>
        minimal == us = <<>>
    IN
    /\ ~isInitialized
    /\ ~listening
    /\ users = <<>>
    /\ users' = IF minimal THEN MinimalUsers ELSE us
    /\ columns' = IF minimal THEN MinimalColumns ELSE cs
    /\ tasks' = IF minimal THEN MinimalTasks(now) ELSE ts
    /\ activities' = IF minimal THEN <<>> ELSE as
    /\ currentUser' = <<users'[1]>>
    /\ storage' = IF loaded
                  THEN saveToStorage(saveToStorage(saveToStorage(saveToStorage(storage,
                           "taskflow-users", us), "taskflow-columns", cs),
                           "taskflow-tasks", ts), "taskflow-activities", as)
                  ELSE storage
    /\ listening' = (step = "setupOfflineHandling")
    /\ last' = [NoLast EXCEPT !.op = "initFails", !.key = step,
                              !.notify = <<"Initialization Error">>,
                              !.result = "basic-view",
                              !.rendered = isInitialized,
                              !.nActs = Len(activities)]
    /\ UNCHANGED <<isInitialized, draggedTask, now, reloads, filters, searchTimeout,
                   timers, peer>>
    /\ Bounded'

\* the clock moves on between handlers
Tick ==
    /\ now' = now + 1
    /\ last' = [NoLast EXCEPT !.op = "tick", !.nActs = Len(activities)]
    /\ UNCHANGED <<tasks, users, columns, activities, currentUser, isInitialized,
                   listening, draggedTask, storage, reloads, filters, searchTimeout, timers, peer>>
    /\ Bounded'

\* ------------------------------------------------------------ form inputs
\* date-only strings the date field may hold: 2025-08-10, 2025-09-01, 2025-09-09
PastDay == <<40>>
Today == <<62>>
FutureDay == <<70>>

ValidFormA ==
    [title |-> <<" ","X"," ">>, description |-> <<>>, priority |-> "", assigneeId |-> "",
     dueDate |-> <<>>, columnId |-> ColTodo, tags |-> <<>>]

ValidFormB ==
    [title |-> <<"F","i","x"," ","l","o","g","i","n">>,
     description |-> <<"n","o","t","e">>, priority |-> "high", assigneeId |-> "user-2",
     dueDate |-> FutureDay, columnId |-> ColDone,
     tags |-> <<" ","a",","," ",",","b"," ">>]

BlankTitleForm == [ValidFormA EXCEPT !.title = <<" ", " ">>]
LongTitleForm == [ValidFormA EXCEPT !.title = Rep("a", TitleMaxLength + 1)]
ExactTitleForm == [ValidFormB EXCEPT !.title = Rep("a", TitleMaxLength)]
LongDescriptionForm ==
    [ValidFormB EXCEPT !.description = Rep("d", DescriptionMaxLength + 1)]
PastDueForm == [ValidFormB EXCEPT !.dueDate = PastDay]
\* "t,t,...,t": one tag more than allowed
TooManyTagsForm ==
    [ValidFormA EXCEPT !.tags = [i \in 1..(2 * MaxTagCount + 1) |->
                                    IF i % 2 = 1 THEN "t" ELSE ","]]

Forms ==
    {ValidFormA, ValidFormB, BlankTitleForm, LongTitleForm, LongDescriptionForm,
     PastDueForm, TooManyTagsForm}

\* the ids a command may be given: a seeded task, a task made when the session
\* starts, and an id no task has
CommandTaskIds == {TaskId(2), TaskId(SessionStart), TaskId(404)}

ColMissing == <<"c","o","l","-","g","o","n","e">>
CommandColumnIds == {ColTodo, ColDone, ColMissing}

\* (form.dataset.taskId, form fields) as saveTask may find them
SaveInputs ==
    {<< <<>>, ValidFormA >>,
     << <<TaskId(2)>>, ValidFormB >>,
     << <<TaskId(404)>>, ValidFormB >>,
     << <<TaskId(2)>>, LongTitleForm >>}

\* the same for forms that fail each validation rule in turn, and for titles
\* at the length limit and one past it
RejectedInputs ==
    {<< <<>>, BlankTitleForm >>, << <<TaskId(2)>>, LongTitleForm >>,
     << <<>>, LongDescriptionForm >>, << <<TaskId(2)>>, PastDueForm >>,
     << <<>>, TooManyTagsForm >>}
BoundaryInputs ==
    {<< <<>>, ExactTitleForm >>, << <<>>, LongTitleForm >>,
     << <<TaskId(2)>>, ExactTitleForm >>}

\* (taskId, newColumnId) as moveTask may be given them
MoveInputs ==
    {<<TaskId(2), ColTodo>>, <<TaskId(2), ColDone>>,
     <<TaskId(SessionStart), ColDone>>,
     <<TaskId(404), ColDone>>, <<TaskId(2), ColMissing>>}

\* ------------------------------------------------------------ command layer
\* `${this.currentUser.name}` raises a TypeError when currentUser is null or undefined
NoCurrentUser == currentUser = <<>>

\* saveTask(): form.dataset.taskId is editId[1] when the form edits a task
saveTask(editId, form) ==
    LET isEditing == editId # <<>>
        taskData == TaskData(form, now)
        errors == validateTaskForm(taskData, now)
        idx == IF isEditing THEN FindTask(tasks, editId[1]) ELSE 0
        base == [NoLast EXCEPT !.op = "saveTask", !.editing = isEditing,
                               !.taskId = IF isEditing THEN editId[1] ELSE NoTaskId,
                               !.form = form, !.nActs = Len(activities),
                               !.before = IF idx > 0 THEN <<tasks[idx]>> ELSE <<>>]
    IN
    /\ isInitialized
    /\ IF errors # {}
       THEN \* showFormErrors, a notification, return
            /\ last' = [base EXCEPT !.result = "invalid", !.errors = errors,
                                    !.notify = <<"Validation Error">>]
            /\ UNCHANGED <<tasks, activities, storage>>
       ELSE IF isEditing /\ idx = 0
       THEN \* no task has this id: nothing is assigned, the list is still saved
            /\ storage' = saveToStorage(storage, "taskflow-tasks", tasks)
            /\ last' = [base EXCEPT !.result = "notfound"]
            /\ UNCHANGED <<tasks, activities>>
       ELSE LET newTask == NewTask(taskData, now)
                tasks1 == IF isEditing
                          THEN [tasks EXCEPT ![idx] = ObjectAssign(@, taskData)]
                          ELSE Append(tasks, newTask)
                subject == IF isEditing THEN tasks1[idx] ELSE newTask
            IN  /\ tasks' = tasks1
                /\ IF NoCurrentUser
                   THEN \* the TypeError is caught by saveTask's own try
                        /\ last' = [base EXCEPT !.result = "caught",
                                                !.notify = <<"Error">>,
                                                !.changed = tasks1 # tasks]
                        /\ UNCHANGED <<activities, storage>>
                   ELSE LET acts1 == addActivity(activities,
                                        IF isEditing THEN "task_updated" ELSE "task_created",
                                        Message(currentUser[1].name,
                                                IF isEditing THEN "updated" ELSE "created",
                                                subject.title, <<>>, <<>>),
                                        subject.id, currentUser[1], now)
                        IN  /\ activities' = acts1
                            /\ storage' = saveToStorage(
                                              saveToStorage(storage, "taskflow-activities", acts1),
                                              "taskflow-tasks", tasks1)
                            /\ last' = [base EXCEPT !.result = "ok",
                                           !.notify = <<IF isEditing THEN "Task Updated"
                                                        ELSE "Task Created">>,
                                           !.changed = tasks1 # tasks]
    /\ UNCHANGED <<users, columns, currentUser, isInitialized, listening, draggedTask,
                   now, reloads, filters, searchTimeout, timers, peer>>
    /\ Bounded'

\* the body of moveTask(taskId, newColumnId), as the handler `op` runs it
moveTask(op, taskId, newColumnId) ==
    LET idx == FindTask(tasks, taskId)
        cidx == FindColumn(columns, newColumnId)
        base == [NoLast EXCEPT !.op = op, !.taskId = taskId, !.columnId = newColumnId,
                               !.nActs = Len(activities),
                               !.before = IF idx > 0 THEN <<tasks[idx]>> ELSE <<>>]
    IN
    IF idx > 0 /\ cidx > 0
    THEN LET oidx == FindColumn(columns, tasks[idx].columnId)
             oldColumnName == IF oidx > 0 THEN columns[oidx].name ELSE TxtUndefined
             tasks1 == [tasks EXCEPT ![idx].columnId = newColumnId,
                                     ![idx].status = StatusOf(newColumnId),
                                     ![idx].updatedAt = now]
         IN  /\ tasks' = tasks1
             /\ IF NoCurrentUser
                THEN \* the TypeError leaves moveTask after the save
                     /\ storage' = saveToStorage(storage, "taskflow-tasks", tasks1)
                     /\ last' = [base EXCEPT !.result = "threw", !.threw = TRUE,
                                             !.changed = tasks1 # tasks]
                     /\ UNCHANGED activities
                ELSE LET acts1 == addActivity(activities, "task_moved",
                                     Message(currentUser[1].name, "moved", tasks[idx].title,
                                             oldColumnName, columns[cidx].name),
                                     taskId, currentUser[1], now)
                     IN  /\ activities' = acts1
                         /\ storage' = saveToStorage(
                                           saveToStorage(storage, "taskflow-tasks", tasks1),
                                           "taskflow-activities", acts1)
                         /\ last' = [base EXCEPT !.result = "ok",
                                                 !.notify = <<"Task Moved">>,
                                                 !.changed = tasks1 # tasks]
    ELSE /\ last' = [base EXCEPT !.result = "notfound"]
         /\ UNCHANGED <<tasks, activities, storage>>

\* app.moveTask(taskId, newColumnId) called as a command
callMoveTask(taskId, newColumnId) ==
    /\ isInitialized
    /\ moveTask("moveTask", taskId, newColumnId)
    /\ UNCHANGED <<users, columns, currentUser, isInitialized, listening, draggedTask,
                   now, reloads, filters, searchTimeout, timers, peer>>
    /\ Bounded'

\* this.draggedTask is a reference: while the task object is still an element of
\* this.tasks it shows that task's fields; once the list has been replaced it
\* keeps the fields it had (snap)
DraggedColumnId ==
    IF draggedTask[1].snap # <<>> THEN draggedTask[1].snap[1].columnId
    ELSE tasks[FindTask(tasks, draggedTask[1].id)].columnId

\* what becomes of the reference when this.tasks is replaced by new objects
Detached(d, ts) ==
    IF d = <<>> \/ d[1].snap # <<>> THEN d
    ELSE <<[id |-> d[1].id, snap |-> <<ts[FindTask(ts, d[1].id)]>>]>>

\* dragstart on a task card
dragstart(taskId) ==
    /\ isInitialized
    /\ draggedTask' = IF FindTask(tasks, taskId) > 0
                      THEN <<[id |-> taskId, snap |-> <<>>]>> ELSE <<>>
    /\ last' = [NoLast EXCEPT !.op = "dragstart", !.taskId = taskId,
                              !.nActs = Len(activities)]
    /\ UNCHANGED <<tasks, users, columns, activities, currentUser, isInitialized,
                   listening, storage, now, reloads, filters, searchTimeout, timers, peer>>

\* dragend on a task card
dragend ==
    /\ isInitialized
    /\ draggedTask # <<>>
    /\ draggedTask' = <<>>
    /\ last' = [NoLast EXCEPT !.op = "dragend", !.nActs = Len(activities)]
    /\ UNCHANGED <<tasks, users, columns, activities, currentUser, isInitialized,
                   listening, storage, now, reloads, filters, searchTimeout, timers, peer>>

\* drop on the column whose data-column-id is columnId
drop(columnId) ==
    /\ isInitialized
    /\ FindColumn(columns, columnId) > 0
    /\ IF draggedTask # <<>> /\ DraggedColumnId # columnId
       THEN moveTask("drop", draggedTask[1].id, columnId)
       ELSE /\ last' = [NoLast EXCEPT !.op = "drop", !.columnId = columnId,
                                      !.result = "skipped", !.nActs = Len(activities)]
            /\ UNCHANGED <<tasks, activities, storage>>
    /\ UNCHANGED <<users, columns, currentUser, isInitialized, listening, draggedTask,
                   now, reloads, filters, searchTimeout, timers, peer>>
    /\ Bounded'

\* toggleTaskCompletion(taskId)
\* the three assignments of toggleTaskCompletion to the task it found
toggled(ts, idx, t) ==
    LET newStatus == IF ts[idx].status = StDone THEN StTodo ELSE StDone
        newColumnId == IF newStatus = StDone THEN ColDone ELSE ColTodo
    IN  [ts EXCEPT ![idx].status = newStatus, ![idx].columnId = newColumnId,
                   ![idx].updatedAt = t]

\* the storage events the other tabs receive for the writes that took the store
\* from `old` to `new`: one for each key whose value changed, of the two keys
\* the storage listener handles, in the order the handlers write them
StorageEvents(old, new) ==
    LET event(key) == IF old[key] = new[key] THEN <<>>
                      ELSE <<[key |-> key, newValue |-> new[key]]>>
    IN  event("taskflow-tasks") \o event("taskflow-activities")

toggleTaskCompletion(taskId) ==
    LET idx == FindTask(tasks, taskId)
        base == [NoLast EXCEPT !.op = "toggleTaskCompletion", !.taskId = taskId,
                               !.nActs = Len(activities),
                               !.before = IF idx > 0 THEN <<tasks[idx]>> ELSE <<>>]
    IN
    /\ isInitialized
    /\ IF idx > 0
       THEN LET newStatus == IF tasks[idx].status = StDone THEN StTodo ELSE StDone
                newColumnId == IF newStatus = StDone THEN ColDone ELSE ColTodo
                tasks1 == toggled(tasks, idx, now)
            IN  /\ tasks' = tasks1
                /\ IF NoCurrentUser
                   THEN /\ storage' = saveToStorage(storage, "taskflow-tasks", tasks1)
                        /\ last' = [base EXCEPT !.result = "threw", !.threw = TRUE,
                                                !.changed = tasks1 # tasks]
                        /\ UNCHANGED activities
                   ELSE LET acts1 == addActivity(activities, "task_updated",
                                        Message(currentUser[1].name, "marked",
                                                tasks[idx].title, <<>>, newStatus),
                                        taskId, currentUser[1], now)
                        IN  /\ activities' = acts1
                            /\ storage' = saveToStorage(
                                              saveToStorage(storage, "taskflow-tasks", tasks1),
                                              "taskflow-activities", acts1)
                            /\ last' = [base EXCEPT !.result = "ok",
                                                    !.notify = <<"Task Updated">>,
                                                    !.changed = tasks1 # tasks]
       ELSE /\ last' = [base EXCEPT !.result = "notfound"]
            /\ UNCHANGED <<tasks, activities, storage>>
    /\ peer' = IF peer.open
               THEN [peer EXCEPT !.inbox = @ \o StorageEvents(storage, storage')]
               ELSE peer
    /\ UNCHANGED <<users, columns, currentUser, isInitialized, listening, draggedTask,
                   now, reloads, filters, searchTimeout, timers>>
    /\ Bounded'

\* the names the prompt may return; <<>> is a cancelled or empty prompt
ColumnNames == {<<>>, <<" ", " ">>, <<" ","B","l","o","c","k","e","d">>}
\* "#" + Math.floor(Math.random() * 16777215).toString(16)
Colors == {"#a1b2c3", "#4d5e6f"}

\* addColumn()
addColumn(name, color) ==
    /\ isInitialized
    /\ IF name # <<>> /\ Trim(name) # <<>>
       THEN LET newColumn == [id |-> ColPrefix \o Digits(now), name |-> Trim(name),
                              order |-> Len(columns), color |-> color]
            IN  /\ columns' = Append(columns, newColumn)
                /\ storage' = saveToStorage(storage, "taskflow-columns", columns')
                /\ last' = [NoLast EXCEPT !.op = "addColumn", !.result = "ok",
                                          !.name = name, !.columnId = newColumn.id,
                                          !.notify = <<"Column Added">>,
                                          !.nActs = Len(activities), !.changed = TRUE]
       ELSE /\ last' = [NoLast EXCEPT !.op = "addColumn", !.result = "rejected",
                                      !.name = name, !.nActs = Len(activities)]
            /\ UNCHANGED <<columns, storage>>
    /\ UNCHANGED <<tasks, users, activities, currentUser, isInitialized, listening,
                   draggedTask, now, reloads, filters, searchTimeout, timers, peer>>
    /\ Bounded'

\* ---------------------------------------------------------- realtime bridge
\* JSON.parse(event.newValue || "[]"): a removed item reads as the empty array
ParseNewValue(entry) ==
    IF entry.kind = "text" THEN [ok |-> FALSE, val |-> <<>>]
    ELSE [ok |-> TRUE, val |-> entry.val]

\* an assignment that merges the parsed value into the collection
AssignedMerging(current, parsed) == IF parsed.ok THEN current \o parsed.val ELSE current

\* an assignment that empties the collection when JSON.parse throws
AssignedOrEmptied(current, parsed) == IF parsed.ok THEN parsed.val ELSE <<>>

\* this.tasks = JSON.parse(...): nothing is assigned when JSON.parse throws
Assigned(current, parsed) == IF parsed.ok THEN parsed.val ELSE current

\* what another tab of the application may have stored under the tasks key
OtherTabTasks ==
    [SeedTasks EXCEPT ![2].columnId = ColDone, ![2].status = StDone,
                      ![2].updatedAt = SessionStart]

OtherTabActivities ==
    <<[id |-> ActivityId(SessionStart), type |-> "task_moved",
       message |-> Message("Deepanshu", "moved", SeedTasks[2].title,
                           SeedColumns[2].name, SeedColumns[5].name),
       userId |-> "user-1", taskId |-> TaskId(2), timestamp |-> SessionStart]>>
    \o SeedActivities(SessionStart)

NewValues(key) ==
    IF key = "taskflow-tasks" THEN {Json(OtherTabTasks), Absent, NotJson}
    ELSE {Json(OtherTabActivities), Absent, NotJson}

\* the storage listener, then handleRealtimeUpdate(event): another context has
\* set the item `key` to newValue
handleRealtimeUpdate(key, newValue) ==
    LET parsed == ParseNewValue(newValue)
        base == [NoLast EXCEPT !.op = "handleRealtimeUpdate", !.key = key,
                               !.nActs = Len(activities)]
    IN
    /\ listening
    /\ storage' = [storage EXCEPT ![key] = newValue]
    /\ IF ~isInitialized
       THEN /\ last' = [base EXCEPT !.result = "skipped"]
            /\ UNCHANGED <<tasks, activities, draggedTask>>
       ELSE /\ tasks' = IF key = "taskflow-tasks" THEN Assigned(tasks, parsed) ELSE tasks
            /\ activities' = IF key = "taskflow-activities"
                             THEN Assigned(activities, parsed) ELSE activities
            /\ draggedTask' = IF key = "taskflow-tasks" /\ parsed.ok
                              THEN Detached(draggedTask, tasks) ELSE draggedTask
            /\ last' = IF parsed.ok
                       THEN [base EXCEPT !.result = "ok",
                                !.notify = IF key = "taskflow-tasks"
                                           THEN <<"Real-time Update">> ELSE <<>>]
                       ELSE [base EXCEPT !.result = "parse-error",
                                         !.notify = <<"Update Error">>]
    /\ UNCHANGED <<users, columns, currentUser, isInitialized, listening, now, reloads, filters, searchTimeout, timers, peer>>
    /\ Bounded'

\* a second tab opens on the same store: its initializeData loads what is stored
\* and writes the same values back, which changes nothing and raises no event
openPeer ==
    LET us == loadFromStorage(storage, "taskflow-users", SeedUsers)
    IN
    /\ isInitialized
    /\ ~peer.open
    /\ peer' = [open |-> TRUE,
               tasks |-> loadFromStorage(storage, "taskflow-tasks", SeedTasks),
               activities |-> loadFromStorage(storage, "taskflow-activities",
                                              SeedActivities(now)),
               currentUser |-> IF us = <<>> THEN <<>> ELSE <<us[1]>>,
               inbox |-> <<>>, sent |-> <<>>]
    /\ last' = [NoLast EXCEPT !.op = "openPeer", !.nActs = Len(activities)]
    /\ UNCHANGED <<tasks, users, columns, activities, currentUser, isInitialized, listening,
                   draggedTask, storage, now, reloads, filters, searchTimeout, timers>>
    /\ Bounded'

\* toggleTaskCompletion(taskId) in the second tab, over its own this.tasks
peerToggleTaskCompletion(taskId) ==
    LET idx == FindTask(peer.tasks, taskId)
        tasks1 == toggled(peer.tasks, idx, now)
        acts1 == addActivity(peer.activities, "task_updated",
                             Message(peer.currentUser[1].name, "marked",
                                     peer.tasks[idx].title, <<>>, tasks1[idx].status),
                             taskId, peer.currentUser[1], now)
    IN
    /\ peer.open
    /\ idx > 0
    /\ storage' = IF peer.currentUser = <<>>
                  THEN saveToStorage(storage, "taskflow-tasks", tasks1)
                  ELSE saveToStorage(saveToStorage(storage, "taskflow-tasks", tasks1),
                                     "taskflow-activities", acts1)
    /\ peer' = [peer EXCEPT !.tasks = tasks1,
                            !.activities = IF peer.currentUser = <<>> THEN @ ELSE acts1,
                            !.sent = @ \o StorageEvents(storage, storage')]
    /\ last' = [NoLast EXCEPT !.op = "peerToggleTaskCompletion", !.taskId = taskId,
                              !.nActs = Len(activities)]
    /\ UNCHANGED <<tasks, users, columns, activities, currentUser, isInitialized, listening,
                   draggedTask, now, reloads, filters, searchTimeout, timers>>
    /\ Bounded'

\* the oldest storage event of the second tab's writes reaches this tab's
\* listener: handleRealtimeUpdate(event) assigns the event's newValue
storageEvent ==
    /\ peer.sent # <<>>
    /\ listening
    /\ LET e == Head(peer.sent)
           parsed == ParseNewValue(e.newValue)
           base == [NoLast EXCEPT !.op = "storageEvent", !.key = e.key,
                                  !.nActs = Len(activities)]
       IN  IF ~isInitialized
           THEN /\ last' = [base EXCEPT !.result = "skipped"]
                /\ UNCHANGED <<tasks, activities, draggedTask>>
           ELSE /\ tasks' = IF e.key = "taskflow-tasks" THEN Assigned(tasks, parsed)
                            ELSE tasks
                /\ activities' = IF e.key = "taskflow-activities"
                                 THEN Assigned(activities, parsed) ELSE activities
                /\ draggedTask' = IF e.key = "taskflow-tasks" /\ parsed.ok
                                  THEN Detached(draggedTask, tasks) ELSE draggedTask
                /\ last' = [base EXCEPT !.result = IF parsed.ok THEN "ok" ELSE "parse-error",
                                        !.notify = IF ~parsed.ok THEN <<"Update Error">>
                                                   ELSE IF e.key = "taskflow-tasks"
                                                   THEN <<"Real-time Update">> ELSE <<>>]
    /\ peer' = [peer EXCEPT !.sent = Tail(@)]
    /\ UNCHANGED <<users, columns, currentUser, isInitialized, listening, storage, now,
                   reloads, filters, searchTimeout, timers>>
    /\ Bounded'

\* the oldest storage event of this tab's writes reaches the second tab
peerStorageEvent ==
    /\ peer.open
    /\ peer.inbox # <<>>
    /\ LET e == Head(peer.inbox)
           parsed == ParseNewValue(e.newValue)
       IN  /\ peer' = [peer EXCEPT
                          !.inbox = Tail(@),
                          !.tasks = IF e.key = "taskflow-tasks"
                                    THEN Assigned(@, parsed) ELSE @,
                          !.activities = IF e.key = "taskflow-activities"
                                         THEN Assigned(@, parsed) ELSE @]
           /\ last' = [NoLast EXCEPT !.op = "peerStorageEvent", !.key = e.key,
                                     !.nActs = Len(activities)]
    /\ UNCHANGED <<tasks, users, columns, activities, currentUser, isInitialized, listening,
                   draggedTask, storage, now, reloads, filters, searchTimeout, timers>>
    /\ Bounded'

Phrases ==
    {"Emma Davis commented on \"User Testing\"",
     "Mike Johnson updated the due date for \"API Integration\"",
     "Sarah Chen added a new task to Backlog",
     "System: Daily standup meeting in 30 minutes"}

\* an entry that names the first seed user as its author
activityOfFirstUser(phrase, t) ==
    [id |-> ActivityId(t), type |-> "system", message |-> Message("", phrase, <<>>, <<>>, <<>>),
     userId |-> "user-1", taskId |-> NoTaskId, timestamp |-> t]

\* the entry simulateRealtimeActivity() builds from the phrase it drew
activity(phrase, t) ==
    [id |-> ActivityId(t), type |-> "system", message |-> Message("", phrase, <<>>, <<>>, <<>>),
     userId |-> "system", taskId |-> NoTaskId, timestamp |-> t]

\* the interval callback: simulateRealtimeActivity() once initialized
simulateRealtimeActivity(phrase) ==
    /\ listening
    /\ IF isInitialized
       THEN /\ activities' = <<activity(phrase, now)>> \o activities
            /\ storage' = saveToStorage(storage, "taskflow-activities", activities')
       ELSE UNCHANGED <<activities, storage>>
    /\ last' = [NoLast EXCEPT !.op = "simulateRealtimeActivity", !.nActs = Len(activities)]
    /\ UNCHANGED <<tasks, users, columns, currentUser, isInitialized, listening,
                   draggedTask, now, reloads, filters, searchTimeout, timers, peer>>
    /\ Bounded'

\* --------------------------------------------------------- export / import
\* a top-level key of a document: missing, an array, or a value that is no array
Missing == [kind |-> "missing", val |-> <<>>]
Array(v) == [kind |-> "array", val |-> v]
NoArray == [kind |-> "other", val |-> <<>>]

\* the text of a file: an object with these keys, the text "null", or text that
\* is not JSON
Document(ts, cs, us, as) ==
    [kind |-> "object", tasks |-> ts, columns |-> cs, users |-> us, activities |-> as,
     exportDate |-> <<>>, version |-> <<>>]
NullDocument == [Document(Missing, Missing, Missing, Missing) EXCEPT !.kind = "null"]
NotJsonDocument == [Document(Missing, Missing, Missing, Missing) EXCEPT !.kind = "text"]

\* a document whose tasks come last in first out
exportDataReversed(ts, cs, us, as, t) ==
    [Document(Array([i \in 1..Len(ts) |-> ts[Len(ts) + 1 - i]]), Array(cs), Array(us),
              Array(as))
     EXCEPT !.exportDate = <<t>>, !.version = <<"1.0">>]

\* exportData(): the document JSON.stringify writes into the downloaded file.
\* Every value of the four collections is a string, a number or an array of
\* them, which JSON.stringify and JSON.parse give back as they were.
exportData(ts, cs, us, as, t) ==
    [Document(Array(ts), Array(cs), Array(us), Array(as))
     EXCEPT !.exportDate = <<t>>, !.version = <<"1.0">>]

\* a board kept in another installation: two columns, one task, no users
ForeignColumns ==
    <<[id |-> ColTodo, name |-> <<"T","o"," ","D","o">>, order |-> 0, color |-> "#3b82f6"],
      [id |-> ColMissing, name |-> <<"G","o","n","e">>, order |-> 1, color |-> "#10b981"]>>

\* a backup whose columns array lists the seed columns last first
ReversedColumns == [i \in 1..Len(SeedColumns) |-> SeedColumns[Len(SeedColumns) + 1 - i]]

\* the files a user may pick, beside the one exportData has just written
ImportDocuments ==
    {NotJsonDocument,
     Document(Missing, Array(ReversedColumns), Missing, Missing),
     NullDocument,
     Document(Missing, Missing, Array(<<>>), Missing),
     Document(Array(OtherTabTasks), NoArray, Missing, Array(<<>>)),
     Document(NoArray, Array(ForeignColumns), Missing, Missing)}

\* the assignment that merges the document's array into the collection
ImportedMerging(current, field) ==
    IF field.kind = "array" THEN current \o field.val ELSE current

\* if (importData.tasks && Array.isArray(importData.tasks)) this.tasks = importData.tasks
Imported(current, field) == IF field.kind = "array" THEN field.val ELSE current

\* importData(file): the reader's onload callback over the file's text
importData(doc) ==
    LET base == [NoLast EXCEPT !.op = "importData", !.doc = <<doc>>,
                               !.nActs = Len(activities)]
    IN
    /\ isInitialized
    /\ IF doc.kind = "object"
       THEN /\ tasks' = Imported(tasks, doc.tasks)
            /\ columns' = Imported(columns, doc.columns)
            /\ users' = Imported(users, doc.users)
            /\ storage' = [k \in Keys |->
                             IF k = "taskflow-tasks" /\ doc.tasks.kind = "array"
                             THEN Json(tasks')
                             ELSE IF k = "taskflow-columns" /\ doc.columns.kind = "array"
                             THEN Json(columns')
                             ELSE IF k = "taskflow-users" /\ doc.users.kind = "array"
                             THEN Json(users')
                             ELSE storage[k]]
            /\ draggedTask' = IF doc.tasks.kind = "array"
                              THEN Detached(draggedTask, tasks) ELSE draggedTask
            /\ last' = [base EXCEPT !.result = "ok", !.notify = <<"Import Successful">>]
       ELSE \* JSON.parse throws, or reading a key of null does: the inner catch
            /\ last' = [base EXCEPT !.result = "parse-error",
                                    !.notify = <<"Import Failed">>]
            /\ UNCHANGED <<tasks, columns, users, storage, draggedTask>>
    /\ UNCHANGED <<activities, currentUser, isInitialized, listening, now, reloads, filters, searchTimeout, timers, peer>>
    /\ Bounded'

\* ------------------------------------------------------------ filter engine
UpperCase ==
    <<"A","B","C","D","E","F","G","H","I","J","K","L","M",
      "N","O","P","Q","R","S","T","U","V","W","X","Y","Z">>
LowerCase ==
    <<"a","b","c","d","e","f","g","h","i","j","k","l","m",
      "n","o","p","q","r","s","t","u","v","w","x","y","z">>

\* String.prototype.toLowerCase
ToLowerChar(c) ==
    IF \E i \in 1..Len(UpperCase) : UpperCase[i] = c
    THEN LowerCase[CHOOSE i \in 1..Len(UpperCase) : UpperCase[i] = c]
    ELSE c
toLowerCase(s) == [i \in 1..Len(s) |-> ToLowerChar(s[i])]

\* String.prototype.includes
includes(s, pat) == pat = <<>> \/ IndexOf(s, pat) > 0

\* a search that looks at the title alone
matchesSearchTitleOnly(task, f) ==
    \/ f.search = <<>>
    \/ includes(toLowerCase(task.title), toLowerCase(f.search))

\* matchesSearch in getFilteredTasks
matchesSearch(task, f) ==
    \/ f.search = <<>>
    \/ includes(toLowerCase(task.title), toLowerCase(f.search))
    \/ /\ task.description # <<>>
       /\ includes(toLowerCase(task.description), toLowerCase(f.search))

\* getFilteredTasks(): this.tasks.filter(...) under this.filters
RECURSIVE getFilteredTasks(_, _)
getFilteredTasks(ts, f) ==
    IF ts = <<>> THEN <<>>
    ELSE LET task == Head(ts)
             matchesPriority == f.priority = "" \/ task.priority = f.priority
             matchesAssignee == f.assignee = "" \/ task.assigneeId = f.assignee
         IN  (IF matchesPriority /\ matchesAssignee /\ matchesSearch(task, f)
              THEN <<task>> ELSE <<>>)
             \o getFilteredTasks(Tail(ts), f)

\* what the filter controls may be set to
FilterPriorities == {"", "high", "medium"}
FilterAssignees == {"", "user-2", "user-3"}
TxtGateway == <<"g","a","t","e","w","a","y">>
SearchTexts == {<<>>, TxtGateway, <<"T","E","S","T","I","N","G">>, <<"z","z">>}

\* renderKanbanView(): this.columns.map over the filtered tasks, one board
\* column per element, in the order of the array
renderKanbanView(cs, filteredTasks) ==
    [i \in 1..Len(cs) |->
        [column |-> cs[i],
         columnTasks |-> SelectSeq(filteredTasks, LAMBDA task : task.columnId = cs[i].id)]]

\* change on the priority filter: applyFilters() renders the filtered tasks
priorityFilterChange(value) ==
    /\ isInitialized
    /\ filters' = [filters EXCEPT !.priority = value]
    /\ last' = [NoLast EXCEPT !.op = "priorityFilter", !.nActs = Len(activities),
                              !.rendered = TRUE,
                              !.filtered = getFilteredTasks(tasks, filters')]
    /\ UNCHANGED <<tasks, users, columns, activities, currentUser, isInitialized,
                   listening, draggedTask, storage, now, reloads, searchTimeout, timers, peer>>

\* change on the assignee filter
assigneeFilterChange(value) ==
    /\ isInitialized
    /\ filters' = [filters EXCEPT !.assignee = value]
    /\ last' = [NoLast EXCEPT !.op = "assigneeFilter", !.nActs = Len(activities),
                              !.rendered = TRUE,
                              !.filtered = getFilteredTasks(tasks, filters')]
    /\ UNCHANGED <<tasks, users, columns, activities, currentUser, isInitialized,
                   listening, draggedTask, storage, now, reloads, searchTimeout, timers, peer>>

\* a debounceSearch that sets the new timer and clears none
debounceSearchKeepingAll(pending, handle, id) == pending \cup {id}

\* debounceSearch(): clearTimeout(this.searchTimeout), then setTimeout, which
\* returns the id of the new timer
debounceSearch(pending, handle, id) == (pending \ {handle}) \cup {id}

\* input on the search box: this.filters.search is set and debounceSearch()
\* called; nothing is rendered
searchInput(value) ==
    /\ isInitialized
    /\ filters' = [filters EXCEPT !.search = value]
    /\ searchTimeout' = searchTimeout + 1
    /\ timers' = debounceSearch(timers, searchTimeout, searchTimeout')
    /\ last' = [NoLast EXCEPT !.op = "searchInput", !.nActs = Len(activities)]
    /\ UNCHANGED <<tasks, users, columns, activities, currentUser, isInitialized,
                   listening, draggedTask, storage, now, reloads, peer>>
    /\ Bounded'

\* the timer of debounceSearch fires: applyFilters()
searchTimeoutFires ==
    /\ \E id \in timers : timers' = timers \ {id}
    /\ last' = [NoLast EXCEPT !.op = "searchTimeout", !.nActs = Len(activities),
                              !.rendered = isInitialized,
                              !.filtered = IF isInitialized
                                           THEN getFilteredTasks(tasks, filters)
                                           ELSE <<>>]
    /\ UNCHANGED <<tasks, users, columns, activities, currentUser, isInitialized,
                   listening, draggedTask, storage, now, reloads, filters,
                   searchTimeout, peer>>

\* ------------------------------------------------------------- session end
\* beforeunload: cleanup() removes the storage listener and clears the interval
cleanup ==
    /\ isInitialized
    /\ listening' = FALSE
    /\ last' = [NoLast EXCEPT !.op = "cleanup", !.nActs = Len(activities)]
    /\ UNCHANGED <<tasks, users, columns, activities, currentUser, isInitialized,
                   draggedTask, storage, now, reloads, filters, searchTimeout, timers, peer>>

\* ------------------------------------------------------------ page reload
\* beforeunload runs cleanup(); the page then loads again and constructs a new
\* application over the same localStorage
reload ==
    /\ isInitialized
    /\ tasks' = <<>>
    /\ users' = <<>>
    /\ columns' = <<>>
    /\ activities' = <<>>
    /\ currentUser' = <<>>
    /\ isInitialized' = FALSE
    /\ listening' = FALSE
    /\ draggedTask' = <<>>
    /\ reloads' = reloads + 1
    /\ filters' = NoFilters
    /\ searchTimeout' = 0
    /\ timers' = {}
    /\ last' = [NoLast EXCEPT !.op = "reload"]
    /\ UNCHANGED <<storage, now, peer>>
    /\ Bounded'

\* ------------------------------------------------------------ specification
\* the command layer of one tab
Next ==
    \/ init
    \/ Tick
    \/ \E in \in SaveInputs : saveTask(in[1], in[2])
    \/ \E in \in MoveInputs : callMoveTask(in[1], in[2])
    \/ \E taskId \in {TaskId(2), TaskId(404)} : toggleTaskCompletion(taskId)

Spec == Init /\ [][Next]_vars

\* the board's columns, with a task command beside addColumn
NextColumns ==
    \/ init
    \/ Tick
    \/ \E name \in ColumnNames, color \in Colors : addColumn(name, color)
    \/ \E taskId \in {TaskId(2), TaskId(404)} : toggleTaskCompletion(taskId)

SpecColumns == Init /\ [][NextColumns]_vars

\* one tab with the realtime bridge and the board's drag and drop
NextRealtime ==
    \/ init
    \/ \E key \in {"taskflow-tasks", "taskflow-activities"} :
          \E newValue \in NewValues(key) : handleRealtimeUpdate(key, newValue)
    \/ \E taskId \in {TaskId(2), TaskId(404)} : dragstart(taskId)
    \/ dragend
    \/ \E columnId \in {ColTodo, ColDone} : drop(columnId)

SpecRealtime == Init /\ [][NextRealtime]_vars

\* import, export and page reload, with task commands beside them
NextImport ==
    \/ init
    \/ \E doc \in ImportDocuments \cup {exportData(tasks, columns, users, activities, now)} :
          importData(doc)
    \/ reload
    \/ saveTask(<<>>, ValidFormA)
    \/ toggleTaskCompletion(TaskId(2))

SpecImport == Init /\ [][NextImport]_vars

\* the task form's validation, with a task command beside it
NextTitle ==
    \/ init
    \/ Tick
    \/ \E in \in RejectedInputs \cup BoundaryInputs : saveTask(in[1], in[2])
    \/ toggleTaskCompletion(TaskId(2))

SpecTitle == Init /\ [][NextTitle]_vars

\* the filter controls over a board whose tasks change
NextFilter ==
    \/ init
    \/ \E value \in FilterPriorities : priorityFilterChange(value)
    \/ \E value \in FilterAssignees : assigneeFilterChange(value)
    \/ \E value \in SearchTexts : searchInput(value)
    \/ searchTimeoutFires
    \/ saveTask(<<TaskId(2)>>, ValidFormB)

SpecFilter == Init /\ [][NextFilter]_vars

\* a session to its end: the timers, the storage listener, cleanup and reload
NextSession ==
    \/ init
    \/ \E value \in {<<>>, TxtGateway} : searchInput(value)
    \/ searchTimeoutFires
    \/ \E phrase \in Phrases : simulateRealtimeActivity(phrase)
    \/ \E newValue \in NewValues("taskflow-tasks") :
          handleRealtimeUpdate("taskflow-tasks", newValue)
    \/ cleanup
    \/ reload
    \/ \E step \in InitSteps : initFails(step)

SpecSession == Init /\ [][NextSession]_vars

\* two tabs on one store, each toggling a task of its own
NextTabs ==
    \/ init
    \/ openPeer
    \/ toggleTaskCompletion(TaskId(2))
    \/ peerToggleTaskCompletion(TaskId(3))
    \/ storageEvent
    \/ peerStorageEvent

SpecTabs == Init /\ [][NextTabs]_vars

\* ------------------------------------------------------------------ claims
\* the task with id `id` as this.tasks.find returns it
TaskById(id) == tasks[FindTask(tasks, id)]

\* columnId with the fixed prefix "col-" stripped
StripColPrefix(columnId) ==
    IF Len(columnId) >= Len(ColPrefix) /\ SubSeq(columnId, 1, Len(ColPrefix)) = ColPrefix
    THEN SubSeq(columnId, Len(ColPrefix) + 1, Len(columnId))
    ELSE columnId

\* a task with its updatedAt left out
SansUpdatedAt(task) == [task EXCEPT !.updatedAt = 0]

\* the last handler was a command that went through to the task it names
TaskCommandTookEffect ==
    /\ last.before # <<>>
    /\ \/ last.op = "saveTask" /\ last.editing /\ last.result \in {"ok", "caught"}
       \/ last.op \in {"moveTask", "drop"} /\ last.result \in {"ok", "threw"}
       \/ last.op = "toggleTaskCompletion" /\ last.result \in {"ok", "threw"}

\* C1: after any sequence of completed commands from the seeded data, every
\* task's status is its columnId with the prefix "col-" stripped.
C1_StatusIsColumnIdStripped ==
    \A i \in 1..Len(tasks) : tasks[i].status = StripColPrefix(tasks[i].columnId)

\* C2: moveTask(taskId, newColumnId) with newColumnId equal to the task's
\* current columnId is a no-op: no activity is added and the task, its
\* updatedAt included, is unchanged.
C2_MoveToCurrentColumnIsNoOp ==
    (/\ last.op \in {"moveTask", "drop"}
     /\ last.before # <<>>
     /\ last.before[1].columnId = last.columnId)
    => /\ TaskById(last.taskId) = last.before[1]
       /\ Len(activities) = last.nActs

\* the form fails a validation rule: title missing or longer than 100,
\* description longer than 500, dueDate before today, more than 10 tags
FormIsInvalid(form, t) ==
    LET data == TaskData(form, t)
    IN  \/ Len(data.title) = 0
        \/ Len(data.title) > TitleMaxLength
        \/ Len(data.description) > DescriptionMaxLength
        \/ data.dueDate # <<>> /\ data.dueDate[1] < t \div MinutesPerDay
        \/ Len(data.tags) > MaxTagCount

\* C3: createTask or updateTask with input that fails any validation rule
\* leaves the in-memory tasks and activities and the persisted tasks and
\* activities exactly as they were.
C3_InvalidInputChangesNothing ==
    [][(last'.op = "saveTask" /\ FormIsInvalid(last'.form, now))
       => /\ tasks' = tasks
          /\ activities' = activities
          /\ storage'["taskflow-tasks"] = storage["taskflow-tasks"]
          /\ storage'["taskflow-activities"] = storage["taskflow-activities"]]_vars

\* an edit of an existing task was refused for its input, after an earlier
\* command had already changed the store
C3_Witness ==
    /\ last.op = "saveTask"
    /\ FormIsInvalid(last.form, now)
    /\ last.before # <<>>
    /\ Len(activities) > Len(SeedActivities(now))

\* C4: every command that takes effect adds exactly one entry to the activity
\* log, and every command that is rejected or is a no-op adds none.
C4_OneActivityPerEffectiveCommand ==
    last.op \in {"saveTask", "moveTask", "toggleTaskCompletion", "addColumn"}
    => Len(activities) = last.nActs + (IF last.changed THEN 1 ELSE 0)

\* C5: in an initialized tab a storage-change notification for the tasks key
\* replaces the whole in-memory task collection by the parsed new stored value,
\* and likewise for the activities key; the other collection, columns and
\* users are unchanged.
C5_StorageChangeReplacesCollection ==
    [][(/\ last'.op = "handleRealtimeUpdate"
        /\ isInitialized
        /\ storage'[last'.key].kind # "text")
       => /\ last'.key = "taskflow-tasks"
             => tasks' = storage'["taskflow-tasks"].val /\ activities' = activities
          /\ last'.key = "taskflow-activities"
             => activities' = storage'["taskflow-activities"].val /\ tasks' = tasks
          /\ columns' = columns
          /\ users' = users]_vars

\* the tasks were replaced by another tab's list after this tab had moved a
\* task of its own
C5_Witness ==
    /\ last.op = "handleRealtimeUpdate"
    /\ last.key = "taskflow-tasks"
    /\ last.result = "ok"
    /\ tasks = OtherTabTasks
    /\ Len(activities) > Len(SeedActivities(now))
    /\ Head(activities).type = "task_moved"

C7_CreateThenMove ==
    /\ (last.op = "saveTask" /\ ~last.editing /\ last.result \in {"ok", "caught"})
       => tasks[Len(tasks)].status = StripColPrefix(TaskData(last.form, now).columnId)
    /\ (/\ last.op = "moveTask"
        /\ last.before # <<>>
        /\ last.taskId = TaskId(last.before[1].createdAt)
        /\ FindColumn(columns, last.columnId) > 0
        /\ last.before[1].columnId # last.columnId)
       => /\ TaskById(last.taskId).columnId = last.columnId
          /\ TaskById(last.taskId).status = StripColPrefix(last.columnId)
          /\ Len(activities) = last.nActs + 1
          /\ Head(activities).type = "task_moved"
          /\ Head(activities).message.from
                = columns[FindColumn(columns, last.before[1].columnId)].name
          /\ Head(activities).message.to = columns[FindColumn(columns, last.columnId)].name
          /\ TaskById(last.taskId).updatedAt > last.before[1].updatedAt

\* C8: toggleTaskCompletion on an existing task sets (status, columnId) to
\* ("todo", "col-todo") when the status was "done" and to ("done", "col-done")
\* otherwise, updates updatedAt, persists tasks and records one activity.
C8_ToggleFlipsBothAndLogs ==
    (last.op = "toggleTaskCompletion" /\ last.before # <<>>)
    => /\ TaskById(last.taskId).status
             = (IF last.before[1].status = StDone THEN StTodo ELSE StDone)
       /\ TaskById(last.taskId).columnId
             = (IF last.before[1].status = StDone THEN ColTodo ELSE ColDone)
       /\ TaskById(last.taskId).updatedAt = now
       /\ storage["taskflow-tasks"] = Json(tasks)
       /\ Len(activities) = last.nActs + 1

\* C9: updateTask applied twice to the same existing task with the same valid
\* payload leaves every field other than updatedAt as it was after the first
\* call.
C9_UpdateTwiceKeepsFields ==
    [][(/\ last.op = "saveTask" /\ last.editing /\ last.before # <<>>
        /\ last.result \in {"ok", "caught"}
        /\ last'.op = "saveTask" /\ last'.editing /\ last'.before # <<>>
        /\ last'.result \in {"ok", "caught"}
        /\ last'.taskId = last.taskId
        /\ last'.form = last.form)
       => SansUpdatedAt(tasks'[FindTask(tasks', last.taskId)])
             = SansUpdatedAt(tasks[FindTask(tasks, last.taskId)])]_vars

\* the last two handlers were updates of the same task, the second at a later
\* clock reading, and the second found the task as its own payload leaves it
C9_Witness ==
    /\ last.op = "saveTask" /\ last.editing /\ last.result = "ok"
    /\ last.before # <<>>
    /\ Len(activities) >= 2
    /\ activities[1].type = "task_updated" /\ activities[1].taskId = last.taskId
    /\ activities[2].type = "task_updated" /\ activities[2].taskId = last.taskId
    /\ activities[2].message.verb = "updated"
    /\ activities[1].timestamp > activities[2].timestamp
    /\ last.before[1].title = TaskData(last.form, now).title
    /\ TaskById(last.taskId).updatedAt > last.before[1].updatedAt

\* C10: every command that mutates a task leaves that task's updatedAt strictly
\* greater than before, also for two commands within one clock reading.
C10_UpdatedAtStrictlyIncreases ==
    (/\ TaskCommandTookEffect
     /\ last.op \in {"moveTask", "drop"} => last.before[1].columnId # last.columnId)
    => TaskById(last.taskId).updatedAt > last.before[1].updatedAt

C12_ImportReplacesOnlyArraysPresent ==
    [][last'.op = "importData"
       => LET doc == last'.doc[1]
          IN  /\ doc.kind = "text"
                 => /\ last'.notify = <<"Import Failed">>
                    /\ UNCHANGED <<tasks, columns, users, activities, storage>>
              /\ doc.kind = "object"
                 => /\ IF doc.tasks.kind = "array"
                       THEN tasks' = doc.tasks.val
                            /\ storage'["taskflow-tasks"] = Json(doc.tasks.val)
                       ELSE tasks' = tasks
                            /\ storage'["taskflow-tasks"] = storage["taskflow-tasks"]
                    /\ IF doc.columns.kind = "array"
                       THEN columns' = doc.columns.val
                            /\ storage'["taskflow-columns"] = Json(doc.columns.val)
                       ELSE columns' = columns
                            /\ storage'["taskflow-columns"] = storage["taskflow-columns"]
                    /\ IF doc.users.kind = "array"
                       THEN users' = doc.users.val
                            /\ storage'["taskflow-users"] = Json(doc.users.val)
                       ELSE users' = users
                            /\ storage'["taskflow-users"] = storage["taskflow-users"]
                    /\ activities' = activities
                    /\ storage'["taskflow-activities"] = storage["taskflow-activities"]]_vars

\* a document with a tasks array, a columns value that is no array and an empty
\* activities array was imported over a log this session had added to
C12_Witness ==
    /\ last.op = "importData"
    /\ last.doc # <<>>
    /\ last.doc[1].kind = "object"
    /\ last.doc[1].tasks.kind = "array"
    /\ last.doc[1].columns.kind = "other"
    /\ last.doc[1].activities = Array(<<>>)
    /\ tasks = OtherTabTasks
    /\ columns = SeedColumns
    /\ Len(activities) > Len(SeedActivities(now))

\* C14: no command ends having applied only part of its effect: a task mutation
\* by moveTask, toggleTaskCompletion, createTask or updateTask comes with its
\* persisted write and its activity-log entry and no exception, also when users
\* is empty or currentUser is undefined.
C14_NoPartialEffect ==
    (/\ last.op \in {"saveTask", "moveTask", "toggleTaskCompletion"}
     /\ last.changed)
    => /\ ~last.threw
       /\ storage["taskflow-tasks"] = Json(tasks)
       /\ Len(activities) = last.nActs + 1
       /\ storage["taskflow-activities"] = Json(activities)

\* no task, and no column, has this id
NoTaskHas(id) == \A i \in 1..Len(tasks) : tasks[i].id # id
NoColumnHas(id) == \A i \in 1..Len(columns) : columns[i].id # id

\* C13: updateTask with an id that matches no task, moveTask with a task id or
\* a column id that matches nothing, and toggleTaskCompletion with an unknown
\* id are no-ops: tasks, columns and activities are unchanged, no activity is
\* recorded and no exception is raised.
C13_UnknownIdsAreNoOps ==
    [][(\/ last'.op = "saveTask" /\ last'.editing /\ NoTaskHas(last'.taskId)
        \/ last'.op = "moveTask"
           /\ (NoTaskHas(last'.taskId) \/ NoColumnHas(last'.columnId))
        \/ last'.op = "toggleTaskCompletion" /\ NoTaskHas(last'.taskId))
       => /\ tasks' = tasks
          /\ columns' = columns
          /\ activities' = activities
          /\ ~last'.threw]_vars

\* moveTask was given a task the board has and a column it has not, after an
\* earlier command had changed the board
C13_Witness ==
    /\ last.op = "moveTask"
    /\ ~NoTaskHas(last.taskId)
    /\ NoColumnHas(last.columnId)
    /\ last.before # <<>>
    /\ TaskById(last.taskId) = last.before[1]
    /\ Len(activities) > Len(SeedActivities(now))

\* old is what new ends with
IsSuffix(old, new) ==
    /\ Len(old) <= Len(new)
    /\ SubSeq(new, Len(new) - Len(old) + 1, Len(new)) = old

\* C15: the activity log is append-only and prepend-ordered: across every step
\* (commands, simulated-activity ticks, import, cross-tab notifications) the
\* previous in-memory activity sequence is a suffix of the new one.
C15_ActivityLogIsAppendOnly == [][IsSuffix(activities, activities')]_vars

\* C17: in every reachable state of a tab every task's columnId is the id of a
\* column in that tab's columns collection.
C17_EveryTaskIsInAColumn ==
    \A i \in 1..Len(tasks) : \E j \in 1..Len(columns) : columns[j].id = tasks[i].columnId

\* the name has a character that is not a blank
NonBlank(name) == \E i \in 1..Len(name) : name[i] # " "

\* C18: addColumn with a name that is non-empty after trimming appends one
\* column whose order is the number of columns before the call and persists
\* columns; with a name that is empty or blank it changes nothing: the column
\* count is the same and nothing is persisted.
C18_AddColumnAppendsOrRejects ==
    [][last'.op = "addColumn"
       => IF NonBlank(last'.name)
          THEN /\ Len(columns') = Len(columns) + 1
               /\ SubSeq(columns', 1, Len(columns)) = columns
               /\ columns'[Len(columns')].order = Len(columns)
               /\ storage'["taskflow-columns"] = Json(columns')
          ELSE /\ columns' = columns
               /\ storage' = storage]_vars

\* " Blocked" was added to the five seeded columns as the sixth, with order 5
C18_Witness ==
    /\ last.op = "addColumn"
    /\ NonBlank(last.name)
    /\ Len(columns) = Len(SeedColumns) + 1
    /\ columns[Len(columns)].order = Len(SeedColumns)
    /\ columns[Len(columns)].name = TxtBlocked
    /\ storage["taskflow-columns"] = Json(columns)

\* C16: after cleanup has run at session end no callback the application
\* scheduled fires again: the storage listener and the 45-second interval are
\* released, and a search-debounce timer pending at teardown is cancelled.
C16_NothingFiresAfterCleanup ==
    [][(isInitialized /\ ~listening)
       => last'.op \notin {"handleRealtimeUpdate", "simulateRealtimeActivity",
                           "searchTimeout"}]_vars

\* s has pat in it at some position, letter case aside
HasIgnoringCase(s, pat) ==
    \E i \in 1..(Len(s) - Len(pat) + 1) :
        \A j \in 1..Len(pat) : ToLowerChar(s[i + j - 1]) = ToLowerChar(pat[j])

\* the task meets all three criteria
MeetsCriteria(task, f) ==
    /\ f.priority = "" \/ task.priority = f.priority
    /\ f.assignee = "" \/ task.assigneeId = f.assignee
    /\ \/ f.search = <<>>
       \/ HasIgnoringCase(task.title, f.search)
       \/ HasIgnoringCase(task.description, f.search)

\* C19: the filter result is exactly the subsequence of the task list, in
\* original order, of the tasks whose priority and assigneeId meet the criteria
\* (an empty criterion meets all) and whose title or description has the search
\* text, case aside; the filter changes neither the list nor the criteria.
C19_FilterIsTheMatchingSubsequence ==
    [][last'.op \in {"priorityFilter", "assigneeFilter", "searchTimeout"}
       => /\ last'.filtered
                = SelectSeq(tasks', LAMBDA task : MeetsCriteria(task, filters'))
          /\ tasks' = tasks
          /\ last'.op = "searchTimeout" => filters' = filters]_vars

\* the search for "gateway", which only task-2's description has, rendered
\* task-2 alone after the timer fired
C19_Witness ==
    /\ last.op = "searchTimeout"
    /\ filters.search = TxtGateway
    /\ filters.priority = ""
    /\ Len(last.filtered) = 1
    /\ last.filtered[1].id = TaskId(2)
    /\ ~HasIgnoringCase(last.filtered[1].title, TxtGateway)

\* C20: createTask with a title of exactly 100 characters and otherwise valid
\* fields adds the task; with a title of 101 characters it returns a title
\* validation error and the task collection is unchanged.
C20_TitleLengthBoundary ==
    [][(/\ last'.op = "saveTask"
        /\ ~last'.editing
        /\ ~FormIsInvalid([last'.form EXCEPT !.title = <<"x">>], now))
       => /\ Len(last'.form.title) = 100 /\ NonBlank(last'.form.title)
             => /\ Len(tasks') = Len(tasks) + 1
                /\ SubSeq(tasks', 1, Len(tasks)) = tasks
                /\ Len(tasks'[Len(tasks')].title) = 100
          /\ Len(last'.form.title) = 101 /\ NonBlank(last'.form.title)
             => /\ "title" \in last'.errors
                /\ tasks' = tasks]_vars

\* a task with a title of 100 characters was added as the board's sixth
C20_Witness ==
    /\ last.op = "saveTask"
    /\ ~last.editing
    /\ last.result = "ok"
    /\ Len(last.form.title) = 100
    /\ Len(tasks) = Len(SeedTasks) + 1
    /\ Len(tasks[Len(tasks)].title) = 100
    /\ last.notify = <<"Task Created">>

\* C23: a change of the search text never filters at once; at most one debounce
\* timer is pending at any time, each keystroke cancels the pending one and
\* schedules a new one, and what a burst of keystrokes leaves is one filter
\* pass, run when the last timer fires, over the latest search text.
C23_DebounceKeepsOneTimer ==
    [][/\ Cardinality(timers') <= 1
       /\ last'.op = "searchInput"
          => /\ ~last'.rendered
             /\ searchTimeout' \notin timers
             /\ timers' = {searchTimeout'}
       /\ last'.op = "searchTimeout"
          => /\ timers' = {}
             /\ last'.rendered
             /\ filters' = filters
             /\ last'.filtered
                   = SelectSeq(tasks, LAMBDA task : MeetsCriteria(task, filters))]_vars

\* after two keystrokes the one timer left fired and rendered the tasks that
\* have the text typed last
C23_Witness ==
    /\ last.op = "searchTimeout"
    /\ last.rendered
    /\ searchTimeout = 2
    /\ timers = {}
    /\ filters.search = TxtGateway
    /\ filters.assignee = ""
    /\ Len(last.filtered) = 1

\* C26: if a step of init raises an exception, the error handler ends with
\* users, columns and tasks non-empty (the minimal dataset when none was
\* loaded) and with the current view rendered from them; the static fallback
\* notice is shown only when that render fails.
C26_InitFailureStillRenders ==
    last.op = "initFails"
    => /\ users # <<>>
       /\ columns # <<>>
       /\ tasks # <<>>
       /\ last.rendered \/ last.result = "fallback"

\* C24: a simulated tick after init has completed prepends exactly one activity
\* of type "system" with userId "system" and persists the activity log, leaving
\* tasks, columns and users as they were; a tick that arrives before init has
\* completed changes nothing.
C24_TickAddsOneSystemActivity ==
    [][last'.op = "simulateRealtimeActivity"
       => /\ tasks' = tasks /\ columns' = columns /\ users' = users
          /\ \A key \in Keys \ {"taskflow-activities"} : storage'[key] = storage[key]
          /\ IF isInitialized
             THEN /\ Len(activities') = Len(activities) + 1
                  /\ Tail(activities') = activities
                  /\ Head(activities').type = "system"
                  /\ Head(activities').userId = "system"
                  /\ storage'["taskflow-activities"] = Json(activities')
             ELSE /\ activities' = activities
                  /\ storage' = storage]_vars

C24_Witness ==
    /\ last.op = "simulateRealtimeActivity"
    /\ isInitialized
    /\ Len(activities) = last.nActs + 1
    /\ activities[1].userId = "system"
    /\ storage["taskflow-activities"] = Json(activities)

C24_WitnessBeforeInit ==
    /\ last.op = "simulateRealtimeActivity"
    /\ ~isInitialized
    /\ listening

\* C27: once init has completed there is a current user and it is one of the
\* users, also after an import that replaces the users and after loading a
\* persisted users list that is empty; every recorded activity carries the id
\* of an existing user.
C27_CurrentUserIsAUser ==
    isInitialized
    => /\ currentUser # <<>>
       /\ \E i \in DOMAIN users : users[i] = currentUser[1]
       /\ last.op \in {"saveTask", "toggleTaskCompletion"} /\ Len(activities) > last.nActs
          => \E i \in DOMAIN users : users[i].id = activities[1].userId

\* the same, after an import only
C27_AfterImport ==
    isInitialized /\ last.op = "importData" /\ currentUser # <<>>
    => \E i \in DOMAIN users : users[i] = currentUser[1]

\* C22: in a single tab whose writes succeed, after initialization and after
\* every mutating command, simulated tick or import, the value stored under
\* each of the four keys is the corresponding collection in memory.
C22_StoreEqualsMemory ==
    /\ isInitialized
    /\ last.op \in {"init", "saveTask", "toggleTaskCompletion", "importData",
                    "simulateRealtimeActivity"}
    => /\ storage["taskflow-tasks"] = Json(tasks)
       /\ storage["taskflow-columns"] = Json(columns)
       /\ storage["taskflow-users"] = Json(users)
       /\ storage["taskflow-activities"] = Json(activities)

\* C25: in every state init has produced or a command has left, the columns
\* the board view iterates are in ascending order of their order field, and
\* the tasks of each board column are in their stored order.
C25_BoardColumnsAscending ==
    isInitialized
    => LET board == renderKanbanView(columns, getFilteredTasks(tasks, filters))
       IN  /\ \A i, j \in DOMAIN board :
                i < j => board[i].column.order <= board[j].column.order
           /\ \A i \in DOMAIN board :
                board[i].columnTasks =
                    SelectSeq(tasks, LAMBDA task : /\ task.columnId = board[i].column.id
                                                   /\ MeetsCriteria(task, filters))

\* C28: after any sequence of task creations all tasks have pairwise distinct
\* ids, also when two tasks are created at the same clock reading.
C28_TaskIdsDistinct ==
    \A i, j \in DOMAIN tasks : i # j => tasks[i].id # tasks[j].id

\* C21: with two tabs on one store, once every pending storage event has been
\* delivered, the tasks each tab holds in memory are the stored tasks, whatever
\* the order of the tabs' commands and of the deliveries.
C21_TabsConvergeToTheStore ==
    peer.open /\ peer.inbox = <<>> /\ peer.sent = <<>> /\ listening
    => /\ storage["taskflow-tasks"] = Json(tasks)
       /\ storage["taskflow-tasks"] = Json(peer.tasks)

====
